---- MODULE Spec2Model ----
(***************************************************************************)
(* A model of the freesurfer-recon-all gear (src/run.py and its helpers).  *)
(* Strings are TLA+ strings: Len, \o and SubSeq act on them character by   *)
(* character, so split, rstrip, replace and the regular-expression         *)
(* substitution of make_file_name_safe are computed as the code does.      *)
(***************************************************************************)
EXTENDS Integers, Sequences, FiniteSets, TLC

\* ------------------------------------------------------------------------
\* Bounds of the model
\* ------------------------------------------------------------------------

\* Longest token list handed to remove_i_args in SpecRemove.
MaxLen == 4

\* ------------------------------------------------------------------------
\* Python string primitives
\* ------------------------------------------------------------------------

\* s[i-1] of Python, as a one-character string.
Ch(s, i) == SubSeq(s, i, i)

\* str.startswith
StartsWith(s, p) == Len(s) >= Len(p) /\ SubSeq(s, 1, Len(p)) = p

\* str.endswith
EndsWith(s, p) == Len(s) >= Len(p) /\ SubSeq(s, Len(s) - Len(p) + 1, Len(s)) = p

\* sub in s
Contains(s, sub) ==
    \E i \in 1..(Len(s) - Len(sub) + 1) : SubSeq(s, i, i + Len(sub) - 1) = sub

\* Index of the first occurrence of the one-character string c in s, 0 if none.
FindCh(s, c) ==
    IF \E i \in 1..Len(s) : Ch(s, i) = c
    THEN CHOOSE i \in 1..Len(s) : Ch(s, i) = c /\ \A j \in 1..(i - 1) : Ch(s, j) # c
    ELSE 0

\* s.split(sep) with an explicit one-character separator: every separator
\* cuts, so consecutive, leading and trailing separators give empty strings.
RECURSIVE Split(_, _)
Split(s, sep) ==
    LET i == FindCh(s, sep)
    IN  IF i = 0 THEN <<s>>
        ELSE <<SubSeq(s, 1, i - 1)>> \o Split(SubSeq(s, i + 1, Len(s)), sep)

\* The characters str.rstrip() strips.
Whitespace == {" ", "\t", "\n", "\r"}

\* s.rstrip()
RECURSIVE RStrip(_)
RStrip(s) ==
    IF Len(s) > 0 /\ Ch(s, Len(s)) \in Whitespace
    THEN RStrip(SubSeq(s, 1, Len(s) - 1))
    ELSE s

\* s.replace(" ", "_")
RECURSIVE ReplaceSpaces(_)
ReplaceSpaces(s) ==
    IF Len(s) = 0 THEN ""
    ELSE (IF Ch(s, 1) = " " THEN "_" ELSE Ch(s, 1))
         \o ReplaceSpaces(SubSeq(s, 2, Len(s)))

\* f"{n}" for a natural number n.
RECURSIVE StrNat(_)
StrNat(n) ==
    IF n < 10 THEN Ch("0123456789", n + 1)
    ELSE StrNat(n \div 10) \o Ch("0123456789", (n % 10) + 1)

\* The part of a path after its last "/" (Path.name).
RECURSIVE Basename(_)
Basename(p) ==
    LET i == FindCh(p, "/")
    IN  IF i = 0 THEN p ELSE Basename(SubSeq(p, i + 1, Len(p)))

\* Concatenation of a sequence of sequences.
RECURSIVE Flatten(_)
Flatten(ss) == IF ss = <<>> THEN <<>> ELSE Head(ss) \o Flatten(Tail(ss))

\* ------------------------------------------------------------------------
\* utils/fly/make_file_name_safe.py, utils/fly/despace.py
\* ------------------------------------------------------------------------

\* The characters outside the class [^A-Za-z0-9_\-.].
SafeChars ==
    { Ch("abcdefghijklmnopqrstuvwxyzABCDEFGHIJKLMNOPQRSTUVWXYZ0123456789_-.", i) :
        i \in 1..65 }

\* re.sub(safe_patt, "", input_basename): every run of unsafe characters is
\* replaced by the empty replacement string.
RECURSIVE SubUnsafe(_)
SubUnsafe(s) ==
    IF Len(s) = 0 THEN ""
    ELSE (IF Ch(s, 1) \in SafeChars THEN Ch(s, 1) ELSE "")
         \o SubUnsafe(SubSeq(s, 2, Len(s)))

\* make_file_name_safe(input_basename) with the default replace_str "".
make_file_name_safe(input_basename) ==
    LET safe_output_basename == SubUnsafe(input_basename)
    IN  IF StartsWith(safe_output_basename, ".")
        THEN SubSeq(safe_output_basename, 2, Len(safe_output_basename))
        ELSE safe_output_basename

\* A despace that renames nothing.
despace_Nothing(relpath) == relpath

\* despace(directory) seen from one path below the directory: every directory
\* and file name with a space is moved to the name with "_" for each space.
despace(relpath) == ReplaceSpaces(relpath)

\* ------------------------------------------------------------------------
\* run.py: remove_i_args
\* ------------------------------------------------------------------------

\* The for loop of remove_i_args from position k on, with the flag skip_arg
\* and the list resume_command built so far.
RECURSIVE RemoveLoop(_, _, _, _)
RemoveLoop(command, k, skip_arg, resume_command) ==
    IF k > Len(command) THEN resume_command
    ELSE IF command[k] = "-i"
         THEN RemoveLoop(command, k + 1, TRUE, resume_command)
    ELSE IF skip_arg
         THEN RemoveLoop(command, k + 1, FALSE, resume_command)
    ELSE RemoveLoop(command, k + 1, skip_arg, Append(resume_command, command[k]))

\* A remove_i_args that drops the "-i" tokens and keeps their values.
remove_i_args_KeepsValue(command) == SelectSeq(command, LAMBDA arg : arg # "-i")

\* A remove_i_args that returns the command as it got it.
remove_i_args_Identity(command) == command

remove_i_args(command) == RemoveLoop(command, 1, FALSE, <<>>)

\* ------------------------------------------------------------------------
\* Configuration values and the configuration dictionary
\* ------------------------------------------------------------------------

\* Python values of the configuration, tagged with their type.
VBool(b) == [t |-> "bool", b |-> b]
VInt(n) == [t |-> "int", n |-> n]
VStr(s) == [t |-> "str", s |-> s]
None == [t |-> "none"]

\* bool(v): the truth value Python gives v in a condition.
Truthy(v) ==
    CASE v.t = "none" -> FALSE
      [] v.t = "bool" -> v.b
      [] v.t = "int" -> v.n # 0
      [] v.t = "str" -> v.s # ""

\* A dict is the sequence of its <<key, value>> items in insertion order.
HasKey(d, k) == \E i \in 1..Len(d) : d[i][1] = k

\* d.get(k)
Get(d, k) == IF HasKey(d, k) THEN d[CHOOSE i \in 1..Len(d) : d[i][1] = k][2] ELSE None

\* d[k] = v: an existing key keeps its place, a new key goes last.
DictSet(d, k, v) ==
    IF HasKey(d, k)
    THEN [i \in 1..Len(d) |-> IF d[i][1] = k THEN <<k, v>> ELSE d[i]]
    ELSE Append(d, <<k, v>>)

\* del d[k], d.pop(k)
DictDel(d, k) == SelectSeq(d, LAMBDA kv : kv[1] # k)

\* ------------------------------------------------------------------------
\* run.py: paths and messages
\* ------------------------------------------------------------------------

INPUT_DIR == "/flywheel/v0/input"
ANAT_DIR == INPUT_DIR \o "/anatomical"

\* The additional T1 directories in the order get_additional_inputs visits them.
AuxT1Dirs == <<"t1w_anatomical_2", "t1w_anatomical_3", "t1w_anatomical_4", "t1w_anatomical_5">>
T2Dir == "t2w_anatomical"
AuxDirSet == {AuxT1Dirs[i] : i \in 1..4} \cup {T2Dir}

\* The warning a dry run records.
DryRunMessage_NoMarker == "Command was NOT run."

DryRunMessage == "gear-dry-run is set: Command was NOT run."

\* The exit status of sys.exit(1) in check_for_previous_run and get_input_file.
FatalExit == 1

\* ------------------------------------------------------------------------
\* The file system the gear starts on
\* ------------------------------------------------------------------------

\* A starting file system:
\*   anat       the files under input/anatomical, as rglob lists them
\*   dirs       the additional input directories that exist
\*   aux        the files under each additional input directory
\*   other      the other files under input/, relative to it
\*   anat_first whether rglob over input/ lists input/anatomical first
\*   zipnames   namelist() of the zip archives of the scenario
\*   subjects   the entries of the Freesurfer subjects directory
Scn(anat, dirs, aux, other, anat_first, zipnames, subjects) ==
    [anat |-> anat, dirs |-> dirs, aux |-> aux, other |-> other,
     anat_first |-> anat_first, zipnames |-> zipnames, subjects |-> subjects]

NoAux == [d \in AuxDirSet |-> <<>>]
PrevZip == "freesurfer-recon-all_sub1_5db3392669d4f3002a16ec4c.zip"

Scenarios ==
    { \* one NIfTI file
      Scn(<<"T1w_MPR.nii.gz">>, {}, NoAux, <<>>, TRUE, <<>>, {"fsaverage"}),
      \* names with spaces, a second T1 and a T2
      Scn(<<"T1 w.nii">>, {"t1w_anatomical_2", T2Dir},
          [NoAux EXCEPT !["t1w_anatomical_2"] = <<"my scan.nii.gz">>, ![T2Dir] = <<"t 2.nii">>],
          <<>>, TRUE, <<>>, {}),
      \* two NIfTI files and every additional input
      Scn(<<"a.nii", "b.nii">>, AuxDirSet, [d \in AuxDirSet |-> <<"x y.nii", "z.nii">>],
          <<>>, TRUE, <<>>, {}),
      \* one additional T1 in a folder, spaces in both names
      Scn(<<"a.nii">>, {"t1w_anatomical_4"},
          [NoAux EXCEPT !["t1w_anatomical_4"] = <<"my series/T1 b.nii">>],
          <<>>, TRUE, <<>>, {}),
      \* additional directories without a NIfTI file
      Scn(<<"a.nii">>, {"t1w_anatomical_3", T2Dir},
          [NoAux EXCEPT !["t1w_anatomical_3"] = <<"notes.txt">>],
          <<>>, TRUE, <<>>, {}),
      \* a DICOM series
      Scn(<<"scan 1.dcm", "scan 2.dcm">>, {}, NoAux, <<"expert/expert.opts">>,
          TRUE, <<>>, {}),
      \* a DICOM series, input/expert listed first
      Scn(<<"scan 1.dcm">>, {}, NoAux, <<"expert/expert.opts">>, FALSE, <<>>, {}),
      \* a zipped DICOM series
      Scn(<<"dicoms.zip">>, {}, NoAux, <<>>, TRUE,
          <<"series 1/1.dcm", "series 1/2.dcm">>, {}),
      \* a zip archive with hidden files only
      Scn(<<"d.zip">>, {}, NoAux, <<>>, TRUE, <<".DS_Store">>, {}),
      \* nothing at all
      Scn(<<>>, {}, NoAux, <<>>, TRUE, <<>>, {}),
      \* hidden files only
      Scn(<<".DS_Store">>, {"t1w_anatomical_2"}, NoAux, <<".cache/x.nii">>, TRUE, <<>>, {}),
      \* a previous run
      Scn(<<PrevZip>>, {}, NoAux, <<>>, TRUE,
          <<"sub1/mri/orig.mgz", "sub1/scripts/recon-all.log">>, {}),
      \* a previous run and an additional T1 beside it
      Scn(<<PrevZip>>, {"t1w_anatomical_2"},
          [NoAux EXCEPT !["t1w_anatomical_2"] = <<"x.nii">>], <<>>, TRUE,
          <<"TOME_3024/mri/orig.mgz">>, {"TOME_3024"}),
      \* a previous run whose directory name is not file-name safe
      Scn(<<PrevZip>>, {}, NoAux, <<>>, TRUE, <<"TOME 3024/mri/orig.mgz">>, {}),
      \* the same, the safe name being there already
      Scn(<<PrevZip>>, {}, NoAux, <<>>, TRUE, <<"TOME 3024/mri/orig.mgz">>, {"TOME3024"}),
      \* a previous run whose directory name has no safe character
      Scn(<<PrevZip>>, {}, NoAux, <<>>, TRUE, <<"@/mri/orig.mgz">>, {}),
      \* an empty archive
      Scn(<<PrevZip>>, {}, NoAux, <<>>, TRUE, <<>>, {}),
      \* two previous runs and a NIfTI file
      Scn(<<PrevZip, "freesurfer-recon-all_b.zip", "T1.nii">>, {}, NoAux, <<>>, TRUE,
          <<"sub1/mri/orig.mgz">>, {})
    }

\* The job's configuration without the gear-dry-run and
\* gear-postprocessing-only keys, the path of the expert input ("" if none),
\* the label of the destination's subject and os.cpu_count().
Job(cfg, expert, label, cpus) ==
    [cfg |-> cfg, expert |-> expert, label |-> label, cpus |-> cpus]

Jobs ==
    { Job(<< <<"reconall_options", VStr("-all -qcache")>>, <<"parallel", VBool(TRUE)>>,
             <<"n_cpus", VInt(1)>>, <<"subject_id", VStr("sub1")>>,
             <<"gear-gtmseg", VBool(TRUE)>>, <<"gear-thalamic_nuclei", VBool(TRUE)>> >>,
          "", "TOME_3024", 8),
      Job(<< <<"parallel", VBool(FALSE)>>, <<"3T", VBool(TRUE)>>,
             <<"reconall_options", VStr("-all  -qcache ")>>, <<"n_cpus", VInt(0)>>,
             <<"subject_id", VStr("")>> >>,
          "", "TOME 3024", 2),
      Job(<< <<"n_cpus", VInt(11)>>, <<"reconall_options", VStr(" -autorecon1\t-3T")>>,
             <<"hemi", VStr("lh")>>, <<"subject_id", VStr("That's Mr. Subject")>>,
             <<"gear-convert_stats", VBool(FALSE)>>,
             <<"gear-hippocampal_subfields", VBool(TRUE)>>,
             <<"gear-brainstem_structures", VBool(TRUE)>>,
             <<"gear-thalamic_nuclei", VBool(FALSE)>> >>,
          "/flywheel/v0/input/expert/expert.opts", "x", 8),
      Job(<< <<"reconall_options", VStr("-all")>>, <<"parallel", VBool(TRUE)>>,
             <<"gear-convert_stats", VBool(TRUE)>> >>,
          "", "TOME_3024", 4)
    }

\* Tokens of the lists remove_i_args is applied to on its own.
RemoveTokens == {"-i", "p", "-all"}

\* All sequences over S of length at most n.
SeqsUpTo(S, n) == UNION {[1..k -> S] : k \in 0..n}

\* ------------------------------------------------------------------------
\* run.py: set_core_count, check_for_previous_run, get_input_file,
\* get_additional_inputs
\* ------------------------------------------------------------------------

\* A set_core_count that takes any n_cpus that is set as it is.
set_core_count_NoClamp(cfg, cpu_count) ==
    IF Truthy(Get(cfg, "n_cpus"))
    THEN DictSet(DictDel(cfg, "n_cpus"), "openmp", Get(cfg, "n_cpus"))
    ELSE DictSet(cfg, "openmp", VInt(cpu_count))

\* set_core_count(config, log): the configuration it leaves behind.
set_core_count(cfg, cpu_count) ==
    LET n_cpus == Get(cfg, "n_cpus")
    IN  IF Truthy(n_cpus)
        THEN IF n_cpus.n > cpu_count
             THEN DictSet(DictDel(cfg, "n_cpus"), "openmp", VInt(cpu_count))
             ELSE DictSet(DictDel(cfg, "n_cpus"), "openmp", n_cpus)
        ELSE DictSet(cfg, "openmp", VInt(cpu_count))

\* Path(SUBJECTS_DIR / name).exists(); an empty name is SUBJECTS_DIR itself.
SubjectDirExists(subj, name) == name = "" \/ name \in subj

\* What unzip_archive puts right under the directory it unpacks into.
TopLevels(names) == {Split(names[i], "/")[1] : i \in 1..Len(names)}

\* anat_dir.rglob("freesurfer-recon-all*.zip")
FindPrevious(f) ==
    SelectSeq(f.anat, LAMBDA r : /\ StartsWith(Basename(r), "freesurfer-recon-all")
                                 /\ EndsWith(Basename(r), ".zip")
                                 /\ Len(Basename(r)) >= 24)

\* zipit.namelist()[0].split("/")[0], "" when that raises.
ArchiveSubject(f) ==
    IF Len(f.zipnames) = 0 THEN "" ELSE Split(f.zipnames[1], "/")[1]

\* The files under input/anatomical once despace(anat_dir) has run.
AnatListing(f) == [i \in 1..Len(f.anat) |-> ANAT_DIR \o "/" \o despace(f.anat[i])]

\* The files under an additional input directory, before or after despace.
AuxListing(f, d, despaced) ==
    IF d \in f.dirs
    THEN [i \in 1..Len(f.aux[d]) |->
            INPUT_DIR \o "/" \o d \o "/"
            \o (IF despaced THEN despace(f.aux[d][i]) ELSE f.aux[d][i])]
    ELSE <<>>

\* The files rglob finds under input/ when get_input_file looks there.
InputListing(f) ==
    LET others == [i \in 1..Len(f.other) |-> INPUT_DIR \o "/" \o f.other[i]]
                  \o Flatten([i \in 1..4 |-> AuxListing(f, AuxT1Dirs[i], FALSE)])
                  \o AuxListing(f, T2Dir, FALSE)
    IN  IF f.anat_first THEN AnatListing(f) \o others ELSE others \o AnatListing(f)

\* rglob("*.nii*")
Niftis(paths) == SelectSeq(paths, LAMBDA q : Contains(Basename(q), ".nii"))

\* A listing that keeps hidden files too.
NotHidden_All(paths) == paths

\* rglob("[!.]*") with the test "/." not in str(f).
NotHidden(paths) ==
    SelectSeq(paths, LAMBDA q : ~StartsWith(Basename(q), ".") /\ ~Contains(q, "/."))

\* get_input_file(log): the anatomical path it returns, or how it ends.
get_input_file(f) ==
    LET anatomical_list == Niftis(AnatListing(f))
        regular == NotHidden(InputListing(f))
        dicoms == NotHidden([i \in 1..Len(f.zipnames) |->
                     ANAT_DIR \o "/dicoms/" \o despace(f.zipnames[i])])
    IN  IF Len(anatomical_list) = 1 THEN [kind |-> "ok", anatomical |-> anatomical_list[1]]
        ELSE IF Len(anatomical_list) = 0
        THEN IF Len(regular) = 0 THEN [kind |-> "exit", anatomical |-> ""]
             ELSE IF EndsWith(regular[1], ".zip")
                  THEN IF Len(dicoms) = 0 THEN [kind |-> "raise", anatomical |-> ""]
                       ELSE [kind |-> "ok", anatomical |-> dicoms[1]]
                  ELSE [kind |-> "ok", anatomical |-> regular[1]]
        ELSE [kind |-> "ok", anatomical |-> anatomical_list[1]]

\* The loop of get_additional_inputs over the additional T1 directories from
\* the i-th on.
RECURSIVE AddT1(_, _)
AddT1(f, i) ==
    IF i > 4 THEN ""
    ELSE LET anatomical_list == Niftis(AuxListing(f, AuxT1Dirs[i], TRUE))
         IN  (IF Len(anatomical_list) > 0
              THEN "-i " \o anatomical_list[1] \o " "
              ELSE "")
             \o AddT1(f, i + 1)

\* A get_additional_inputs that leaves the space after the last path.
get_additional_inputs_NoStrip(f) ==
    LET t2_list == Niftis(AuxListing(f, T2Dir, TRUE))
    IN  AddT1(f, 1) \o (IF Len(t2_list) > 0 THEN "-T2 " \o t2_list[1] \o " " ELSE "")

\* get_additional_inputs(log)
get_additional_inputs(f) ==
    LET t2_list == Niftis(AuxListing(f, T2Dir, TRUE))
    IN  RStrip(AddT1(f, 1)
               \o (IF Len(t2_list) > 0 THEN "-T2 " \o t2_list[1] \o " " ELSE ""))

\* ------------------------------------------------------------------------
\* run.py: generate_command
\* ------------------------------------------------------------------------

\* f"{val}"
Format(val) ==
    CASE val.t = "int" -> StrNat(val.n)
      [] val.t = "str" -> val.s
      [] val.t = "bool" -> IF val.b THEN "True" ELSE "False"
      [] val.t = "none" -> "None"

\* A loop body that treats a boolean like any other value.
KeyTokens_BoolValue(key, val) ==
    IF key = "reconall_options" THEN Split(val.s, " ")
    ELSE <<"-" \o key, Format(val)>>

\* The tokens one turn of the loop over command_config.items() appends.
KeyTokens(key, val) ==
    IF key = "reconall_options" THEN Split(val.s, " ")
    ELSE IF val.t = "bool" THEN (IF val.b THEN <<"-" \o key>> ELSE <<>>)
    ELSE <<"-" \o key, Format(val)>>

\* The condition of the while loops of execute_recon_all_command and
\* execute_postprocesing_command, with a third try.
RetryAllowed_Three(tries) == tries < 3

\* while num_tries < 2
RetryAllowed(tries) == tries < 2

\* A test that lets post-processing run whatever the return code.
PostGate_Always(rc) == TRUE

\* main: if return_code == 0
PostGate(rc) == rc = 0

\* The tables the external tools leave unwritten though they return 0: none,
\* or one table of each step that makes tables.
Unwritten ==
    { {},
      {"rh.amygNucVolumes-T1.v21", "brainstemSsVolumes.v2",
       "ThalamicNuclei.v12.T1.volumes", "aseg_stats_vol_mm3",
       "lh_aparc.pial_stats_area_mm2"} }

\* The table files in the output directory when the gear starts: none, or
\* the thalamic tables of two subjects.
OutputDirs ==
    { {}, {"/flywheel/v0/output/sub1_ThalamicNuclei.v12.T1.volumes.csv",
           "/flywheel/v0/output/ThatsMr.Subject_ThalamicNuclei.v12.T1.volumes.csv"} }

\* sys.exit(0) whatever the return code.
ExitStatus_Zero(rc) == 0

\* main: sys.exit(return_code)
ExitStatus(rc) == rc

\* ------------------------------------------------------------------------
\* run.py: the catalogue of post-processing steps
\* ------------------------------------------------------------------------

OUTPUT_DIR == "/flywheel/v0/output"

\* The configuration keys of the post-processing steps, in catalogue order.
PostKeys ==
    <<"gear-hippocampal_subfields", "gear-brainstem_structures", "gear-thalamic_nuclei",
      "gear-hypothalamic_subunits", "gear-register_surfaces", "gear-convert_surfaces",
      "gear-gtmseg", "gear-convert_volumes", "gear-convert_stats">>

\* do_gear_hippocampal_subfields: txt_files without ".txt", the keys it
\* inserts, in the order of its loop.
HippoTables ==
    <<"lh.hippoSfVolumes-T1.v21", "rh.hippoSfVolumes-T1.v21",
      "lh.amygNucVolumes-T1.v21", "rh.amygNucVolumes-T1.v21">>

\* do_gear_brainstem_structures, do_gear_thalamic_nuclei: their one key.
BrainstemTables == <<"brainstemSsVolumes.v2">>
ThalamicTables == <<"ThalamicNuclei.v12.T1.volumes">>

\* do_gear_convert_stats: the aseg key, then hemi x parc in loop order.
StatsTables ==
    <<"aseg_stats_vol_mm3">>
    \o Flatten([h \in 1..2 |-> [p \in 1..4 |->
          <<"lh", "rh">>[h] \o "_"
          \o <<"aparc.a2009s", "aparc", "aparc.DKTatlas", "aparc.pial">>[p]
          \o "_stats_area_mm2"]])

\* The keys the i-th step of the catalogue can insert into the metadata, in
\* the order it looks for their table files; none for a step without table.
StepTables(i) ==
    CASE PostKeys[i] = "gear-hippocampal_subfields" -> HippoTables
      [] PostKeys[i] = "gear-brainstem_structures" -> BrainstemTables
      [] PostKeys[i] = "gear-thalamic_nuclei" -> ThalamicTables
      [] PostKeys[i] = "gear-convert_stats" -> StatsTables
      [] OTHER -> <<>>

\* tablefile = f"{OUTPUT_DIR}/{subject_id}_<name>.csv"
Tablefile(sid, name) == OUTPUT_DIR \o "/" \o sid \o "_" \o name \o ".csv"

\* A step that inserts the key of every table it looked for.
KeysFound_NoTest(sid, names, files) == {names[j] : j \in 1..Len(names)}

\* if Path(tablefile).exists(): the keys inserted for the tables names, the
\* output directory holding files.
KeysFound(sid, names, files) ==
    {names[j] : j \in {k \in 1..Len(names) : Tablefile(sid, names[k]) \in files}}

\* A handler that goes on with the step after the one that raised.
PostRetryFrom_Resume(step) == step + 1

\* except RuntimeError, then while: the body starts again at its first if.
PostRetryFrom(step) == 1

\* A report that leaves the errors out.
Summaries_NoErrors(w, e, m) ==
    (IF Len(w) > 0 THEN {"warnings"} ELSE {})
    \cup (IF m # {} THEN {"metadata"} ELSE {})

\* main, lines 928-957: what is logged and written at the end of the run.
Summaries(w, e, m) ==
    (IF Len(w) > 0 THEN {"warnings"} ELSE {})
    \cup (IF Len(e) > 0 THEN {"errors"} ELSE {})
    \cup (IF m # {} THEN {"metadata"} ELSE {})

\* ------------------------------------------------------------------------
\* State
\* ------------------------------------------------------------------------

VARIABLES
    fs,               \* the file system the gear started on
    job,              \* the job: configuration, expert input, label, cpu count
    unwritten,        \* the tables the tools of this run do not write
    config,           \* gtk_context.config
    subjects,         \* the entries of SUBJECTS_DIR
    pc,               \* where the process is
    dry_run,          \* main: dry_run
    subject_id,       \* main: subject_id
    command_config,   \* main: command_config
    new_subject_id,   \* generate_command: new_subject_id
    command,          \* generate_command: command
    main_command,     \* main: command, <<>> until generate_command returns
    cfg_i,            \* generate_command: the next item of command_config
    segs,             \* the tokens each item of command_config appended
    num_tries,        \* execute_recon_all_command: num_tries
    ra_command,       \* execute_recon_all_command: command
    ra_errors,        \* execute_recon_all_command: errors
    ra_warnings,      \* execute_recon_all_command: warnings
    ra_return_code,   \* execute_recon_all_command: return_code
    dispatched,       \* the commands handed to a real external process
    ra_outcomes,      \* how each call of exec_command for recon-all ended
    pp_tries,         \* execute_postprocesing_command: num_tries
    pp_errors,        \* execute_postprocesing_command: errors
    pp_return_code,   \* execute_postprocesing_command: return_code
    pp_step,          \* execute_postprocesing_command: the next if of the body
    pp_ran,           \* the steps that were called: try, step, whether it raised
    tables,           \* the table files in the output directory
    errors,           \* main: errors
    warnings,         \* main: warnings
    return_code,      \* main: return_code
    metadata,         \* the keys of metadata["analysis"]["info"]
    zipped,           \* whether zip_output was called
    cleaned,          \* whether work_dir was unlinked
    reported,         \* the summaries logged at the end of main
    end_steps,        \* the blocks at the end of main that were gone through
    exit_code,        \* the exit status of the process, -1 while it runs
    fn_pc,            \* a function on its own: "call" before it is applied, "ret" after
    fn_in,            \* a function on its own: the argument
    fn_out            \* a function on its own: the result

inputVars == <<fs, job, unwritten>>
mainVars == <<config, subjects, dry_run, subject_id, command_config>>
genVars == <<new_subject_id, command, main_command, cfg_i, segs>>
reconVars == <<num_tries, ra_command, ra_errors, ra_warnings, ra_return_code,
               dispatched, ra_outcomes>>
postVars == <<pp_tries, pp_errors, pp_return_code, pp_step, pp_ran, tables>>
endVars == <<errors, warnings, return_code, metadata, zipped, cleaned, reported,
             end_steps, exit_code>>
fnVars == <<fn_pc, fn_in, fn_out>>
vars == <<inputVars, mainVars, genVars, reconVars, postVars, endVars, fnVars, pc>>

\* The state of main before its first statement, whatever the inputs.
MainStart ==
    /\ subjects = fs.subjects
    /\ dry_run = FALSE
    /\ subject_id = ""
    /\ command_config = <<>>
    /\ new_subject_id = ""
    /\ command = <<>>
    /\ main_command = <<>>
    /\ cfg_i = 1
    /\ segs = <<>>
    /\ num_tries = 0
    /\ ra_command = <<>>
    /\ ra_errors = <<>>
    /\ ra_warnings = <<>>
    /\ ra_return_code = 0
    /\ dispatched = <<>>
    /\ ra_outcomes = <<>>
    /\ pp_tries = 0
    /\ pp_errors = <<>>
    /\ pp_return_code = 0
    /\ pp_step = 1
    /\ pp_ran = <<>>
    /\ errors = <<>>
    /\ warnings = <<>>
    /\ return_code = 0
    /\ metadata = {}
    /\ zipped = FALSE
    /\ cleaned = FALSE
    /\ reported = {}
    /\ end_steps = {}
    /\ exit_code = -1

Init ==
    /\ fs \in Scenarios
    /\ job \in Jobs
    /\ unwritten \in Unwritten
    /\ tables \in OutputDirs
    /\ \E dry \in BOOLEAN, ppo \in BOOLEAN :
          config = << <<"gear-log-level", VStr("INFO")>>,
                      <<"gear-dry-run", VBool(dry)>>,
                      <<"gear-postprocessing-only", VBool(ppo)>> >> \o job.cfg
    /\ pc = "main"
    /\ MainStart
    /\ fn_pc = "idle"
    /\ fn_in = <<>>
    /\ fn_out = <<>>

\* ------------------------------------------------------------------------
\* main up to generate_command
\* ------------------------------------------------------------------------

\* main, lines 799-881: dry_run, set_core_count, command_config, subject_id.
Setup ==
    /\ pc = "main"
    /\ LET newcfg == set_core_count(config, job.cpus)
           plain == SelectSeq(newcfg, LAMBDA kv : ~StartsWith(kv[1], "gear-"))
           withexpert == IF job.expert # ""
                         THEN DictSet(plain, "expert", VStr(job.expert))
                         ELSE plain
           sid == IF Truthy(Get(newcfg, "subject_id"))
                  THEN Get(newcfg, "subject_id").s
                  ELSE job.label
       IN  /\ config' = newcfg
           /\ dry_run' = Truthy(Get(newcfg, "gear-dry-run"))
           /\ command_config' = DictDel(withexpert, "subject_id")
           /\ subject_id' = make_file_name_safe(sid)
    /\ pc' = "generate"
    /\ UNCHANGED <<inputVars, subjects, genVars, reconVars, postVars, endVars, fnVars>>

\* generate_command, lines 205-215, with check_for_previous_run.
CheckForPreviousRun ==
    /\ pc = "generate"
    /\ LET find == FindPrevious(fs)
           unpacked == subjects \cup TopLevels(fs.zipnames)
           raw == ArchiveSubject(fs)
           safe == make_file_name_safe(raw)
       IN  IF Len(find) > 0
           THEN /\ subjects' = unpacked
                /\ IF raw # "" /\ ~SubjectDirExists(unpacked, safe)
                   THEN /\ new_subject_id' = safe
                        /\ command' = <<"time", "recon-all">>
                        /\ pc' = "exited"
                        /\ exit_code' = FatalExit
                   ELSE /\ new_subject_id' = (IF raw # "" THEN safe ELSE "")
                        /\ IF new_subject_id' # ""
                           THEN /\ command' = <<"time", "recon-all", "-subjid", new_subject_id'>>
                                /\ pc' = "config"
                           ELSE /\ command' = <<"time", "recon-all">>
                                /\ pc' = "input"
                        /\ UNCHANGED exit_code
           ELSE /\ new_subject_id' = ""
                /\ command' = <<"time", "recon-all">>
                /\ pc' = "input"
                /\ UNCHANGED <<subjects, exit_code>>
    /\ UNCHANGED <<inputVars, config, dry_run, subject_id, command_config,
                   main_command, cfg_i, segs, reconVars, postVars, fnVars,
                   errors, warnings, return_code, metadata, zipped, cleaned, reported,
                   end_steps>>

\* generate_command, lines 218-220, with get_input_file. An IndexError it
\* raises is caught nowhere: the interpreter ends with status 1.
GetInputFile ==
    /\ pc = "input"
    /\ LET r == get_input_file(fs)
       IN  CASE r.kind = "ok" ->
                  /\ command' = command \o <<"-i", r.anatomical>>
                  /\ pc' = "additional"
                  /\ UNCHANGED exit_code
             [] r.kind = "exit" ->
                  /\ pc' = "exited"
                  /\ exit_code' = FatalExit
                  /\ UNCHANGED command
             [] r.kind = "raise" ->
                  /\ pc' = "crashed"
                  /\ exit_code' = 1
                  /\ UNCHANGED command
    /\ UNCHANGED <<inputVars, mainVars, new_subject_id, main_command, cfg_i, segs,
                   reconVars, postVars, fnVars,
                   errors, warnings, return_code, metadata, zipped, cleaned, reported,
                   end_steps>>

\* generate_command, lines 221-225, with get_additional_inputs.
GetAdditionalInputs ==
    /\ pc = "additional"
    /\ LET add_inputs == get_additional_inputs(fs)
       IN  command' = command
                      \o (IF add_inputs # "" THEN Split(add_inputs, " ") ELSE <<>>)
                      \o <<"-subjid", subject_id>>
    /\ pc' = "config"
    /\ UNCHANGED <<inputVars, mainVars, new_subject_id, main_command, cfg_i, segs,
                   reconVars, postVars, endVars, fnVars>>

\* generate_command, lines 228-237: one turn of the loop over command_config.
ConfigKey ==
    /\ pc = "config"
    /\ cfg_i <= Len(command_config)
    /\ LET toks == KeyTokens(command_config[cfg_i][1], command_config[cfg_i][2])
       IN  /\ command' = command \o toks
           /\ segs' = Append(segs, toks)
    /\ cfg_i' = cfg_i + 1
    /\ UNCHANGED <<inputVars, mainVars, new_subject_id, main_command, pc,
                   reconVars, postVars, endVars, fnVars>>

\* generate_command, lines 239-241, and the assignment in main, line 883.
GenerateReturn ==
    /\ pc = "config"
    /\ cfg_i > Len(command_config)
    /\ main_command' = command
    /\ pc' = "built"
    /\ UNCHANGED <<inputVars, mainVars, new_subject_id, command, cfg_i, segs,
                   reconVars, postVars, endVars, fnVars>>

\* ------------------------------------------------------------------------
\* main: execute_recon_all_command
\* ------------------------------------------------------------------------

\* The subject directory recon-all works in: the token after "-subjid".
SubjidOf(cmd) ==
    LET i == CHOOSE i \in 1..Len(cmd) :
                 cmd[i] = "-subjid" /\ \A j \in 1..(i - 1) : cmd[j] # "-subjid"
    IN  IF i < Len(cmd) THEN cmd[i + 1] ELSE ""

\* main, lines 885-895: the command is run unless errors were recorded or
\* gear-postprocessing-only is set.
Run ==
    /\ pc = "built"
    /\ IF Len(errors) > 0
       THEN /\ return_code' = 1
            /\ pc' = "zip"
            /\ UNCHANGED reconVars
       ELSE /\ return_code' = 0
            /\ IF ~Truthy(Get(config, "gear-postprocessing-only"))
               THEN /\ pc' = "recon"
                    /\ num_tries' = 0
                    /\ ra_command' = main_command
                    /\ ra_errors' = <<>>
                    /\ ra_warnings' = <<>>
                    /\ UNCHANGED <<ra_return_code, dispatched, ra_outcomes>>
               ELSE /\ pc' = "gate"
                    /\ UNCHANGED reconVars
    /\ UNCHANGED <<inputVars, mainVars, genVars, postVars, fnVars,
                   errors, warnings, metadata, zipped, cleaned, reported, end_steps,
                   exit_code>>

\* execute_recon_all_command, lines 673-713: one turn of the while loop.
\* exec_command with dry_run set starts no process and returns; without it
\* the process runs, and exec_command raises RuntimeError when it fails.
\* recon-all makes its subject directory; a failing one may not get there.
ReconAttempt ==
    /\ pc = "recon"
    /\ RetryAllowed(num_tries)
    /\ num_tries' = num_tries + 1
    /\ IF dry_run
       THEN /\ ra_warnings' = Append(ra_warnings, DryRunMessage)
            /\ subjects' = subjects \cup
                  (IF SubjectDirExists(subjects, subject_id) THEN {} ELSE {subject_id})
            /\ metadata' = {"dry_run"}
            /\ ra_outcomes' = Append(ra_outcomes, "skipped")
            /\ ra_return_code' = 0
            /\ pc' = "recon_ret"
            /\ UNCHANGED <<ra_command, ra_errors, dispatched>>
       ELSE /\ dispatched' = Append(dispatched, ra_command)
            /\ \E ok \in BOOLEAN, made \in BOOLEAN :
                  /\ ok => made
                  /\ subjects' = subjects \cup (IF made THEN {SubjidOf(ra_command)} ELSE {})
                  /\ IF ok
                     THEN /\ ra_outcomes' = Append(ra_outcomes, "ok")
                          /\ ra_return_code' = 0
                          /\ pc' = "recon_ret"
                          /\ UNCHANGED <<ra_command, ra_errors>>
                     ELSE /\ ra_outcomes' = Append(ra_outcomes, "failed")
                          /\ ra_errors' = Append(ra_errors, "RuntimeError")
                          /\ ra_return_code' = 1
                          /\ ra_command' = remove_i_args(ra_command)
                          /\ pc' = "recon"
            /\ UNCHANGED <<ra_warnings, metadata>>
    /\ UNCHANGED <<inputVars, config, dry_run, subject_id, command_config, genVars,
                   postVars, fnVars, errors, warnings, return_code,
                   zipped, cleaned, reported, end_steps, exit_code>>

\* execute_recon_all_command, line 673: the while condition is false.
ReconGiveUp ==
    /\ pc = "recon"
    /\ ~RetryAllowed(num_tries)
    /\ pc' = "recon_ret"
    /\ UNCHANGED <<inputVars, mainVars, genVars, reconVars, postVars, endVars, fnVars>>

\* execute_recon_all_command, line 715, and main, lines 896-898.
ReconReturn ==
    /\ pc = "recon_ret"
    /\ errors' = errors \o ra_errors
    /\ warnings' = warnings \o ra_warnings
    /\ return_code' = ra_return_code
    /\ pc' = "gate"
    /\ UNCHANGED <<inputVars, mainVars, genVars, reconVars, postVars, fnVars,
                   metadata, zipped, cleaned, reported, end_steps, exit_code>>

\* ------------------------------------------------------------------------
\* main: execute_postprocesing_command
\* ------------------------------------------------------------------------

\* Some step is enabled and would start a real process.
PostCanRaise ==
    /\ ~dry_run
    /\ \E i \in 1..Len(PostKeys) : Truthy(Get(config, PostKeys[i]))

\* main, lines 900-904: the call enters the while body at its first if.
Gate ==
    /\ pc = "gate"
    /\ IF PostGate(return_code)
       THEN /\ pc' = "post"
            /\ pp_tries' = 0
            /\ pp_errors' = <<>>
            /\ pp_step' = 1
            /\ UNCHANGED <<pp_return_code, pp_ran, tables>>
       ELSE /\ pc' = "zip"
            /\ UNCHANGED postVars
    /\ UNCHANGED <<inputVars, mainVars, genVars, reconVars, endVars, fnVars>>

\* execute_postprocesing_command, lines 745-751: a turn of the while loop
\* begins.
PostAttempt ==
    /\ pc = "post"
    /\ RetryAllowed(pp_tries)
    /\ pp_tries' = pp_tries + 1
    /\ pp_return_code' = 0
    /\ pc' = "post_step"
    /\ UNCHANGED <<inputVars, mainVars, genVars, reconVars, endVars, fnVars,
                   pp_errors, pp_step, pp_ran, tables>>

\* execute_postprocesing_command, lines 753-794: one if of the body. A step
\* that is switched on runs its commands in order and looks for each table
\* right after the command that writes it; a command that fails makes
\* exec_command raise RuntimeError, which ends the step and the turn. With
\* dry_run set exec_command starts nothing and returns.
PostStep ==
    /\ pc = "post_step"
    /\ pp_step <= Len(PostKeys)
    /\ IF ~Truthy(Get(config, PostKeys[pp_step]))
       THEN /\ pp_step' = pp_step + 1
            /\ UNCHANGED <<pc, pp_errors, pp_return_code, pp_ran, tables, metadata>>
       ELSE LET names == StepTables(pp_step)
                n == Len(names)
            IN  \E raised \in BOOLEAN, looked \in 0..n :
                  /\ raised => (PostCanRaise /\ (looked < n \/ n = 0))
                  /\ ~raised => looked = n
                  /\ LET seen == SubSeq(names, 1, looked)
                         written ==
                             IF dry_run THEN {}
                             ELSE {Tablefile(subject_id, seen[j]) :
                                     j \in {k \in 1..looked : seen[k] \notin unwritten}}
                     IN  /\ tables' = tables \cup written
                         /\ metadata' = metadata \cup KeysFound(subject_id, seen, tables')
                  /\ pp_ran' = Append(pp_ran, [try |-> pp_tries, step |-> pp_step,
                                               raised |-> raised, looked |-> looked])
                  /\ IF raised
                     THEN /\ pp_errors' = Append(pp_errors, "RuntimeError")
                          /\ pp_return_code' = 1
                          /\ pp_step' = PostRetryFrom(pp_step)
                          /\ pc' = "post"
                     ELSE /\ pp_step' = pp_step + 1
                          /\ UNCHANGED <<pc, pp_errors, pp_return_code>>
    /\ UNCHANGED <<inputVars, mainVars, genVars, reconVars, fnVars, pp_tries,
                   errors, warnings, return_code, zipped, cleaned, reported,
                   end_steps, exit_code>>

\* execute_postprocesing_command, line 788: break.
PostBreak ==
    /\ pc = "post_step"
    /\ pp_step > Len(PostKeys)
    /\ pc' = "post_ret"
    /\ UNCHANGED <<inputVars, mainVars, genVars, reconVars, postVars, endVars, fnVars>>

\* execute_postprocesing_command, line 745: the while condition is false.
PostGiveUp ==
    /\ pc = "post"
    /\ ~RetryAllowed(pp_tries)
    /\ pc' = "post_ret"
    /\ UNCHANGED <<inputVars, mainVars, genVars, reconVars, postVars, endVars, fnVars>>

\* execute_postprocesing_command, line 796, and main, lines 905-906.
PostReturn ==
    /\ pc = "post_ret"
    /\ errors' = errors \o pp_errors
    /\ return_code' = pp_return_code
    /\ pc' = "zip"
    /\ UNCHANGED <<inputVars, mainVars, genVars, reconVars, postVars, fnVars,
                   warnings, metadata, zipped, cleaned, reported, end_steps, exit_code>>

\* ------------------------------------------------------------------------
\* main: the end of the run
\* ------------------------------------------------------------------------

\* main, lines 908-919.
ZipOutput ==
    /\ pc = "zip"
    /\ zipped' = SubjectDirExists(subjects, subject_id)
    /\ end_steps' = end_steps \cup {"zip"}
    /\ pc' = "cleanup"
    /\ UNCHANGED <<inputVars, mainVars, genVars, reconVars, postVars, fnVars,
                   errors, warnings, return_code, metadata, cleaned, reported, exit_code>>

\* main, lines 921-926: work_dir is a link to the subject directory.
Cleanup ==
    /\ pc = "cleanup"
    /\ cleaned' = SubjectDirExists(subjects, subject_id)
    /\ end_steps' = end_steps \cup {"cleanup"}
    /\ pc' = "report"
    /\ UNCHANGED <<inputVars, mainVars, genVars, reconVars, postVars, fnVars,
                   errors, warnings, return_code, metadata, zipped, reported, exit_code>>

\* main, lines 928-957.
Report ==
    /\ pc = "report"
    /\ reported' = Summaries(warnings, errors, metadata)
    /\ end_steps' = end_steps \cup {"report"}
    /\ pc' = "exit"
    /\ UNCHANGED <<inputVars, mainVars, genVars, reconVars, postVars, fnVars,
                   errors, warnings, return_code, metadata, zipped, cleaned, exit_code>>

\* main, lines 959-963.
Exit ==
    /\ pc = "exit"
    /\ exit_code' = ExitStatus(return_code)
    /\ pc' = "exited"
    /\ UNCHANGED <<inputVars, mainVars, genVars, reconVars, postVars, fnVars,
                   errors, warnings, return_code, metadata, zipped, cleaned, reported,
                   end_steps>>

Next ==
    \/ Setup
    \/ CheckForPreviousRun
    \/ GetInputFile
    \/ GetAdditionalInputs
    \/ ConfigKey
    \/ GenerateReturn
    \/ Run
    \/ ReconAttempt
    \/ ReconGiveUp
    \/ ReconReturn
    \/ Gate
    \/ PostAttempt
    \/ PostStep
    \/ PostBreak
    \/ PostGiveUp
    \/ PostReturn
    \/ ZipOutput
    \/ Cleanup
    \/ Report
    \/ Exit

Spec == Init /\ [][Next]_vars

\* ------------------------------------------------------------------------
\* remove_i_args on its own
\* ------------------------------------------------------------------------

InitRemove ==
    /\ fs = Scn(<<>>, {}, NoAux, <<>>, TRUE, <<>>, {})
    /\ job = Job(<<>>, "", "", 1)
    /\ unwritten = {}
    /\ tables = {}
    /\ config = <<>>
    /\ pc = "idle"
    /\ MainStart
    /\ fn_pc = "call"
    /\ fn_in \in SeqsUpTo(RemoveTokens, MaxLen)
    /\ fn_out = <<>>

\* resume_command = remove_i_args(command)
ApplyRemove ==
    /\ fn_pc = "call"
    /\ fn_out' = remove_i_args(fn_in)
    /\ fn_pc' = "ret"
    /\ UNCHANGED <<inputVars, mainVars, genVars, reconVars, postVars, endVars, pc, fn_in>>

SpecRemove == InitRemove /\ [][ApplyRemove]_vars

\* ------------------------------------------------------------------------
\* set_core_count on its own
\* ------------------------------------------------------------------------

\* Most cores os.cpu_count() reports.
MaxCpus == 8

\* The configurations set_core_count is applied to on its own: n_cpus
\* absent, 0, or a positive number up to one more than the most cores.
CoreConfigs ==
    { << <<"parallel", VBool(TRUE)>> >> }
    \cup { << <<"n_cpus", VInt(n)>>, <<"parallel", VBool(TRUE)>> >> : n \in 0..(MaxCpus + 1) }

InitCores ==
    /\ fs = Scn(<<>>, {}, NoAux, <<>>, TRUE, <<>>, {})
    /\ job = Job(<<>>, "", "", 1)
    /\ unwritten = {}
    /\ tables = {}
    /\ config = <<>>
    /\ pc = "idle"
    /\ MainStart
    /\ fn_pc = "call"
    /\ \E c \in CoreConfigs, k \in 1..MaxCpus : fn_in = [config |-> c, os_cpu_count |-> k]
    /\ fn_out = <<>>

\* set_core_count(config, log)
ApplyCores ==
    /\ fn_pc = "call"
    /\ fn_out' = set_core_count(fn_in.config, fn_in.os_cpu_count)
    /\ fn_pc' = "ret"
    /\ UNCHANGED <<inputVars, mainVars, genVars, reconVars, postVars, endVars, pc, fn_in>>

SpecCores == InitCores /\ [][ApplyCores]_vars

\* ------------------------------------------------------------------------
\* make_file_name_safe on its own
\* ------------------------------------------------------------------------

\* Longest name make_file_name_safe is applied to on its own.
MaxName == 4

\* The characters of those names: a safe one, the dot, and two unsafe ones.
NameChars == {"a", ".", " ", "/"}

\* "".join(cs)
RECURSIVE JoinChars(_)
JoinChars(cs) == IF cs = <<>> THEN "" ELSE Head(cs) \o JoinChars(Tail(cs))

Names == {JoinChars(cs) : cs \in SeqsUpTo(NameChars, MaxName)}

InitSafe ==
    /\ fs = Scn(<<>>, {}, NoAux, <<>>, TRUE, <<>>, {})
    /\ job = Job(<<>>, "", "", 1)
    /\ unwritten = {}
    /\ tables = {}
    /\ config = <<>>
    /\ pc = "idle"
    /\ MainStart
    /\ fn_pc = "call"
    /\ fn_in \in Names
    /\ fn_out = <<>>

\* make_file_name_safe(x), then make_file_name_safe of what it returned.
ApplySafe ==
    /\ fn_pc \in {"call", "ret"}
    /\ Len(fn_out) < 2
    /\ fn_out' = Append(fn_out, make_file_name_safe(IF fn_out = <<>> THEN fn_in
                                                    ELSE fn_out[Len(fn_out)]))
    /\ fn_pc' = "ret"
    /\ UNCHANGED <<inputVars, mainVars, genVars, reconVars, postVars, endVars, pc, fn_in>>

SpecSafe == InitSafe /\ [][ApplySafe]_vars

\* ------------------------------------------------------------------------
\* utils/bids/download_run_level.py: fix_dataset_description
\* ------------------------------------------------------------------------

\* A JSON array of strings.
VList(items) == [t |-> "list", items |-> items]

DATASET_DESCRIPTION ==
    << <<"Acknowledgements", VStr("")>>,
       <<"Authors", VList(<<>>)>>,
       <<"BIDSVersion", VStr("1.2.0")>>,
       <<"DatasetDOI", VStr("")>>,
       <<"Funding", VList(<<>>)>>,
       <<"HowToAcknowledge", VStr("")>>,
       <<"License", VStr("")>>,
       <<"Name", VStr("tome")>>,
       <<"ReferencesAndLinks", VList(<<>>)>>,
       <<"template", VStr("project")>> >>

\* Longest string and longest list "Funding" arrives as.
MaxFunding == 3

\* The values "Funding" arrives with: a string, a list of strings, a
\* number or null.
FundingValues ==
    {VStr(JoinChars(cs)) : cs \in SeqsUpTo({"N", "I"}, MaxFunding)}
    \cup {VList(l) : l \in SeqsUpTo({"NIH", "NSF"}, MaxFunding - 1)}
    \cup {VInt(0), VInt(5), None}

\* dataset_description.json under bids_path: whether it exists, and the
\* object it holds.
DescFile(exists, data) == [exists |-> exists, data |-> data]

DescFiles ==
    {DescFile(FALSE, <<>>)}
    \cup {DescFile(TRUE, DictSet(DictSet(DATASET_DESCRIPTION, "Name", VStr(n)), "Funding", v)) :
            n \in {"tome", "study"}, v \in FundingValues}
    \cup {DescFile(TRUE, DictDel(DictSet(DATASET_DESCRIPTION, "Name", VStr(n)), "Funding")) :
            n \in {"tome", "study"}}

\* A conversion that wraps the value in a list.
ListOf_Wrap(v) ==
    IF v.t = "str" THEN [kind |-> "return", value |-> VList(<<v.s>>)]
    ELSE [kind |-> "raise", exc |-> "TypeError"]

\* list(v): the characters of a string; TypeError for a value that cannot
\* be iterated.
ListOf(v) ==
    IF v.t = "str"
    THEN [kind |-> "return", value |-> VList([i \in 1..Len(v.s) |-> Ch(v.s, i)])]
    ELSE IF v.t = "list" THEN [kind |-> "return", value |-> v]
    ELSE [kind |-> "raise", exc |-> "TypeError"]

\* fix_dataset_description(bids_path): the file it leaves and whether it
\* wrote it, or the exception it lets through.
fix_dataset_description(file) ==
    IF file.exists
    THEN IF ~HasKey(file.data, "Funding")
         THEN [kind |-> "raise", exc |-> "KeyError", file |-> file, written |-> FALSE]
         ELSE IF Get(file.data, "Funding").t # "list"
         THEN LET l == ListOf(Get(file.data, "Funding"))
              IN  IF l.kind = "raise"
                  THEN [kind |-> "raise", exc |-> l.exc, file |-> file, written |-> FALSE]
                  ELSE [kind |-> "return",
                        file |-> DescFile(TRUE, DictSet(file.data, "Funding", l.value)),
                        written |-> TRUE]
         ELSE [kind |-> "return", file |-> file, written |-> FALSE]
    ELSE [kind |-> "return", file |-> DescFile(TRUE, DATASET_DESCRIPTION), written |-> TRUE]

InitFix ==
    /\ fs = Scn(<<>>, {}, NoAux, <<>>, TRUE, <<>>, {})
    /\ job = Job(<<>>, "", "", 1)
    /\ unwritten = {}
    /\ tables = {}
    /\ config = <<>>
    /\ pc = "idle"
    /\ MainStart
    /\ fn_pc = "call"
    /\ fn_in \in DescFiles
    /\ fn_out = [kind |-> "none"]

\* fix_dataset_description(bids_path)
ApplyFix ==
    /\ fn_pc = "call"
    /\ fn_out' = fix_dataset_description(fn_in)
    /\ fn_pc' = "ret"
    /\ UNCHANGED <<inputVars, mainVars, genVars, reconVars, postVars, endVars, pc, fn_in>>

SpecFix == InitFix /\ [][ApplyFix]_vars

\* ------------------------------------------------------------------------
\* utils/bids/validate.py
\* ------------------------------------------------------------------------

\* Most errors a validator report lists in the model.
MaxErrors == 2

\* Largest exit code of the validator in the model.
MaxExit == 4

\* What one run of bids-validator leaves behind: its exit code and what its
\* output file holds:
\*   "garbage"  text json.load cannot decode
\*   "scalar"   JSON that is not an object (a list, a string, null)
\*   "nokeys"   a JSON object without "issues"
\*   "report"   an object with issues.errors, a list of n entries; show is
\*              how show_errors_and_warnings ends on it: "ok", "TypeError"
\*              (an issue whose "files" is null) or "KeyError" (no
\*              "warnings" in issues)
Validation(exit, out, n, show) == [exit |-> exit, out |-> out, n |-> n, show |-> show]

ValidatorRuns ==
    {Validation(e, o, 0, "ok") : e \in 0..MaxExit, o \in {"garbage", "scalar", "nokeys"}}
    \cup {Validation(e, "report", n, sh) :
            e \in 0..MaxExit, n \in 0..MaxErrors, sh \in {"ok", "TypeError", "KeyError"}}

\* call_validate_bids(bids_path, out_path): the return code it reports.
call_validate_bids(v) == IF v.out = "garbage" THEN 1 ELSE v.exit

\* validate_bids(bids_path): the code it returns, or the exception it lets
\* through.
validate_bids(v) ==
    LET Returns(c) == [kind |-> "return", err_code |-> c]
        Raises(x) == [kind |-> "raise", exc |-> x]
        err_code0 == call_validate_bids(v)
        \* line 174: subscripting text or a scalar raises TypeError, a
        \* missing key KeyError
        counted == v.out = "report"
        num_bids_errors == IF counted THEN v.n ELSE -1
        type_error == v.out \in {"garbage", "scalar"} \/ (counted /\ v.show = "TypeError")
        err_code1 == IF type_error THEN 12 ELSE err_code0
    IN  IF v.out = "nokeys" \/ (counted /\ v.show = "KeyError")
        THEN Raises("KeyError")
        ELSE IF num_bids_errors < 0 THEN Returns(11)
        ELSE IF num_bids_errors > 0 THEN Returns(10)
        ELSE Returns(err_code1)

InitValidate ==
    /\ fs = Scn(<<>>, {}, NoAux, <<>>, TRUE, <<>>, {})
    /\ job = Job(<<>>, "", "", 1)
    /\ unwritten = {}
    /\ tables = {}
    /\ config = <<>>
    /\ pc = "idle"
    /\ MainStart
    /\ fn_pc = "call"
    /\ fn_in \in ValidatorRuns
    /\ fn_out = [kind |-> "none"]

\* err_code = validate_bids(bids_path)
ApplyValidate ==
    /\ fn_pc = "call"
    /\ fn_out' = validate_bids(fn_in)
    /\ fn_pc' = "ret"
    /\ UNCHANGED <<inputVars, mainVars, genVars, reconVars, postVars, endVars, pc, fn_in>>

SpecValidate == InitValidate /\ [][ApplyValidate]_vars

\* ------------------------------------------------------------------------
\* utils/bids/run_level.py
\* ------------------------------------------------------------------------

\* The levels of the hierarchy, from the top.
Levels == <<"project", "subject", "session", "acquisition">>
LevelSet == {Levels[i] : i \in 1..4}

\* A destination as the platform answers for it:
\*   fail    the lookup fw.get that raises ApiException: "destination", a
\*           level, or "" when none does
\*   parent  destination.parent.type, "" when the destination has no parent
\*   has     the levels destination.parents holds an id for
Dest(fail, parent, has) == [fail |-> fail, parent |-> parent, has |-> has]

Destinations ==
    {Dest(f, t, h) :
        f \in {"", "destination", "session"},
        t \in {""} \cup LevelSet \cup {"collection"},
        h \in {{}, {"project"}, {"project", "subject"},
               {"project", "subject", "session"}, LevelSet,
               {"subject", "session", "acquisition"}}}

\* The label of the container at a level.
ContainerLabel(level) ==
    CASE level = "project" -> "TheProjectLabel"
      [] level = "subject" -> "TheSubjectCode"
      [] level = "session" -> "TheSessionLabel"
      [] level = "acquisition" -> "TheAcquisitionLabel"

\* A chain that takes the project's label at every level.
RunLabel_Project(run_level, labels) ==
    IF run_level \in LevelSet THEN labels["project"] ELSE VStr("unknown")

\* get_run_level_and_hierarchy, lines 77-86: defined for the four levels and
\* for no_parent only.
RunLabel(run_level, labels) ==
    IF run_level \in LevelSet THEN labels[run_level] ELSE VStr("unknown")

\* get_run_level_and_hierarchy(fw, destination_id): the hierarchy it
\* returns, or the exception it lets through.
get_run_level_and_hierarchy(d) ==
    LET run_level == IF d.parent # "" THEN d.parent ELSE "no_parent"
        labels == [l \in LevelSet |->
                    IF l \in d.has THEN VStr(ContainerLabel(l))
                    ELSE VStr("unknown " \o l)]
    IN  IF d.fail = "destination" \/ d.fail \in d.has
        THEN [kind |-> "return",
              hierarchy |-> [run_level |-> "no_destination",
                             run_label |-> VStr("unknown"),
                             group |-> None,
                             labels |-> [l \in LevelSet |-> None]]]
        ELSE IF run_level \notin LevelSet \cup {"no_parent"}
        THEN [kind |-> "raise", exc |-> "UnboundLocalError"]
        ELSE [kind |-> "return",
              hierarchy |-> [run_level |-> run_level,
                             run_label |-> RunLabel(run_level, labels),
                             group |-> VStr("monkeyshine"),
                             labels |-> labels]]

\* ------------------------------------------------------------------------
\* utils/bids/download_run_level.py
\* ------------------------------------------------------------------------

\* Most calls of download_bids_for_runlevel in one run of the model.
MaxCalls == 2

\* Path(gtk_context.work_dir) / "bids"
BIDS_DIR == "/flywheel/v0/work/bids"

\* The gear context: the type of the destination, the label of the
\* destination when it is an acquisition, and do_validate_bids.
Gtk(dest_type, acq_label, validate) ==
    [dest_type |-> dest_type, acq_label |-> acq_label, validate |-> validate]

Contexts ==
    {Gtk("analysis", "", v) : v \in BOOLEAN}
    \cup {Gtk("session", "", v) : v \in BOOLEAN}
    \cup {Gtk("acquisition", a, v) :
            a \in {"TheAcquisitionLabel", "unknown acqusition"}, v \in BOOLEAN}

\* How a call of download_project_bids or download_bids_dir ends: the data
\* is there ("made"), a path comes back with nothing at it ("missing"), no
\* path comes back ("none"), or it raises.
DownloadOutcomes == {"made", "missing", "none", "BIDSExportError", "ApiException"}

\* Handlers that take every exception for a BIDSExportError.
ExceptCode_AllExport(exc) == 21

\* download_bids_for_runlevel, lines 290-300.
ExceptCode(exc) == IF exc = "BIDSExportError" THEN 21 ELSE 25

\* A test that downloads whether the directory is there or not.
MustDownload_Always(exists) == TRUE

\* download_bids_for_runlevel: if Path(BIDS_DIR).exists() ... else download.
MustDownload(exists) == ~exists

\* download_bids_for_runlevel, line 246: the label it takes for unknown.
UnknownAcquisition == "unknown acqusition"

\* No listing was written.
NoTree == [written |-> FALSE, directory |-> "", extra |-> <<>>]

\* if err_code > 0
IsError(err_code) == err_code > 0

\* A function that writes the listing whatever tree says.
WantsTree_Always(tree) == TRUE

\* if tree
WantsTree(tree) == tree

\* download_bids_for_runlevel(gtk_context, hierarchy, tree): exists tells
\* whether BIDS_DIR is there, acq_ok whether get_acquisition answers, dl how
\* a download would end, fix how fix_dataset_description would end and val
\* how validate_bids would end. err_code -1 stands for the variable never
\* assigned. extra is extra_tree_text, one entry for each piece added.
download_bids_for_runlevel(gtk, hierarchy, tree, exists, acq_ok, dl, fix, val) ==
    LET override == hierarchy.run_level # "no_destination" /\ gtk.dest_type = "acquisition"
        run_level == IF override THEN "acquisition" ELSE hierarchy.run_level
        hier == IF override /\ acq_ok
                THEN [hierarchy EXCEPT !.labels["acquisition"] = VStr(gtk.acq_label)]
                ELSE hierarchy
        unknown == run_level = "acquisition"
                   /\ hier.labels["acquisition"] = VStr(UnknownAcquisition)
        project_call == run_level \in {"project", "subject", "session"} /\ MustDownload(exists)
        acq_call == run_level = "acquisition" /\ ~unknown /\ MustDownload(exists)
        calls == IF project_call THEN <<"download_project_bids">>
                 ELSE IF acq_call THEN <<"download_bids_dir">>
                 ELSE <<>>
        raised == calls # <<>> /\ dl \in {"BIDSExportError", "ApiException"}
        now == exists \/ (calls # <<>> /\ dl = "made")
        \* bids_path and err_code after the try statement
        bids_path ==
            IF run_level \notin LevelSet \/ unknown \/ raised THEN "None"
            ELSE IF project_call /\ dl = "none" THEN "None"
            ELSE BIDS_DIR
        err_try ==
            IF run_level = "no_destination" THEN 24
            ELSE IF run_level \notin LevelSet THEN 20
            ELSE IF unknown THEN 23
            ELSE IF raised THEN ExceptCode(dl)
            ELSE -1
        found == bids_path # "None" /\ now
        err_code ==
            IF bids_path = "None" THEN err_try
            ELSE IF ~now THEN 26
            ELSE IF ~gtk.validate THEN 0
            ELSE IF val.kind = "raise" THEN 22
            ELSE val.err_code
        final_path == IF bids_path = "None" THEN "work/bids" ELSE bids_path
        extra ==
            <<"hierarchy">>
            \o (IF override THEN <<"acquisition_label changed">> ELSE <<>>)
            \o (CASE err_try = 24 -> <<"ERROR: Destination does not exist.">>
                  [] err_try = 20 -> <<"ERROR: This job is not being run at the right level">>
                  [] err_try = 23 -> <<"ERROR: Cannot download BIDS for acquisition">>
                  [] err_try = 21 -> <<"BIDSExportError">>
                  [] err_try = 25 -> <<"EXCEPTION: ApiException">>
                  [] OTHER -> <<>>)
            \o (IF bids_path = "None"
                THEN <<"Warning: no bids path, checked work/bids anyway.">>
                ELSE IF ~now THEN <<"No BIDS data was found to download">>
                ELSE IF gtk.validate /\ val.kind = "raise" THEN <<"EXCEPTION: " \o val.exc>>
                ELSE <<>>)
            \o (IF IsError(err_code)
                THEN <<"Error in BIDS download or validation.  See log for details.">>
                ELSE <<"Downloading BIDS data was successful!">>)
    IN  IF override /\ ~acq_ok
        THEN [kind |-> "raise", exc |-> "ApiException", hierarchy |-> hierarchy,
              calls |-> <<>>, exists |-> exists, tree |-> NoTree]
        ELSE IF found /\ fix.kind = "raise"
        THEN [kind |-> "raise", exc |-> fix.exc, hierarchy |-> hier,
              calls |-> calls, exists |-> now, tree |-> NoTree]
        ELSE IF err_code = -1
        THEN [kind |-> "raise", exc |-> "UnboundLocalError", hierarchy |-> hier,
              calls |-> calls, exists |-> now, tree |-> NoTree]
        ELSE [kind |-> "return", err_code |-> err_code, hierarchy |-> hier,
              calls |-> calls, exists |-> now,
              run_level |-> run_level,
              bids_path |-> final_path,
              found |-> found,
              validated |-> found /\ gtk.validate,
              success |-> ~IsError(err_code),
              tree |-> IF WantsTree(tree)
                       THEN [written |-> TRUE, directory |-> final_path, extra |-> extra]
                       ELSE NoTree]

\* get_run_level_and_hierarchy has just ended: no call of
\* download_bids_for_runlevel has touched the hierarchy yet.
LevelTaken == fn_pc \in {"hierarchy", "raised"} /\ fn_out.ncalls = 0

\* The state of a run of the BIDS functions on their own: fn_in holds the
\* destination, the gear context and the argument tree, fn_out the hierarchy, whether BIDS_DIR
\* exists now and existed before the last call, the download calls made so
\* far, how the download of the last call ended and how the last call of
\* download_bids_for_runlevel ended.
InitBids ==
    /\ fs = Scn(<<>>, {}, NoAux, <<>>, TRUE, <<>>, {})
    /\ job = Job(<<>>, "", "", 1)
    /\ unwritten = {}
    /\ tables = {}
    /\ config = <<>>
    /\ pc = "idle"
    /\ MainStart
    /\ fn_pc = "call"
    /\ \E d \in Destinations, g \in Contexts, t \in BOOLEAN :
          fn_in = [dest |-> d, gtk |-> g, tree |-> t]
    /\ \E e \in BOOLEAN :
          fn_out = [level |-> [kind |-> "none"], exists |-> e, before |-> e,
                    ncalls |-> 0, downloads |-> <<>>, outcome |-> "no call",
                    last |-> [kind |-> "none"]]

\* fix_dataset_description returned; validate_bids returned 0.
FixReturns == [kind |-> "return", exc |-> ""]
ValidateReturns == [kind |-> "return", err_code |-> 0]

\* How fix_dataset_description(bids_path) can end.
FixOutcomes ==
    {[kind |-> fix_dataset_description(f).kind,
      exc |-> IF fix_dataset_description(f).kind = "raise"
              THEN fix_dataset_description(f).exc ELSE ""] : f \in DescFiles}

\* How validate_bids(bids_path) can end.
ValidateOutcomes == {validate_bids(v) : v \in ValidatorRuns}

\* hierarchy = get_run_level_and_hierarchy(fw, destination_id)
GetRunLevel ==
    /\ fn_pc = "call"
    /\ LET r == get_run_level_and_hierarchy(fn_in.dest)
       IN  /\ fn_out' = [fn_out EXCEPT !.level = r]
           /\ fn_pc' = IF r.kind = "return" THEN "hierarchy" ELSE "raised"
    /\ UNCHANGED <<inputVars, mainVars, genVars, reconVars, postVars, endVars, pc, fn_in>>

\* err_code = download_bids_for_runlevel(gtk_context, hierarchy), once the
\* hierarchy is there or a call before has returned.
DownloadBids ==
    /\ fn_pc \in {"hierarchy", "downloaded"}
    /\ fn_out.ncalls < MaxCalls
    /\ \E acq_ok \in BOOLEAN, dl \in DownloadOutcomes,
          fix \in FixOutcomes, val \in ValidateOutcomes :
          LET r == download_bids_for_runlevel(fn_in.gtk, fn_out.level.hierarchy, fn_in.tree,
                                              fn_out.exists, acq_ok, dl, fix, val)
              \* the call with everything it asks answered well
              probe == download_bids_for_runlevel(fn_in.gtk, fn_out.level.hierarchy,
                                                  fn_in.tree, fn_out.exists, acq_ok, dl,
                                                  FixReturns, ValidateReturns)
              asks_fix == probe.kind = "return" /\ probe.found
          IN  \* an answer the call never asks for is taken once
              /\ fn_in.gtk.dest_type # "acquisition" => acq_ok
              /\ probe.calls = <<>> => dl = "made"
              /\ ~asks_fix => fix = FixReturns
              /\ ~(asks_fix /\ fix = FixReturns /\ fn_in.gtk.validate) => val = ValidateReturns
              /\ fn_out' = [fn_out EXCEPT
                               !.level.hierarchy = r.hierarchy,
                               !.before = fn_out.exists,
                               !.exists = r.exists,
                               !.ncalls = @ + 1,
                               !.downloads = @ \o r.calls,
                               !.outcome = IF r.calls # <<>> THEN dl ELSE "no call",
                               !.last = r]
              /\ fn_pc' = IF r.kind = "return" THEN "downloaded" ELSE "raised"
    /\ UNCHANGED <<inputVars, mainVars, genVars, reconVars, postVars, endVars, pc, fn_in>>

SpecBids == InitBids /\ [][GetRunLevel \/ DownloadBids]_vars

\* ------------------------------------------------------------------------
\* Properties
\* ------------------------------------------------------------------------

\* The elements of a sequence.
Range(seq) == {seq[i] : i \in 1..Len(seq)}

\* The tokens of c at the positions in K, in order.
RECURSIVE PickFrom(_, _, _)
PickFrom(c, K, k) ==
    IF k > Len(c) THEN <<>>
    ELSE (IF k \in K THEN <<c[k]>> ELSE <<>>) \o PickFrom(c, K, k + 1)

\* The tokens of c that are neither "-i" nor right after a "-i".
WithoutInputPairs(c) ==
    PickFrom(c, {k \in 1..Len(c) : c[k] # "-i" /\ (k = 1 \/ c[k - 1] # "-i")}, 1)

\* execute_recon_all_command was called and has left its loop.
ReconReturned == ra_outcomes # <<>> /\ pc # "recon"

\* C1: recon-all is dispatched at most twice, the second time only after the
\* first dispatch failed, and execute_recon_all_command returns 0 exactly
\* when its last attempt succeeded and 1 exactly when both attempts failed.
C1_AtMostTwoAttempts ==
    /\ num_tries <= 2
    /\ Len(ra_outcomes) <= 2
    /\ Len(dispatched) <= 2
    /\ Len(ra_outcomes) = 2 => ra_outcomes[1] = "failed"
    /\ ReconReturned =>
          /\ ra_return_code \in {0, 1}
          /\ ra_return_code = 0 <=> ra_outcomes[Len(ra_outcomes)] # "failed"
          /\ ra_return_code = 1 <=> ra_outcomes = <<"failed", "failed">>
          /\ Len(ra_errors) = Cardinality({i \in 1..Len(ra_outcomes) : ra_outcomes[i] = "failed"})

\* C1's case: both attempts were dispatched and failed.
C1_Witness ==
    /\ pc = "recon_ret"
    /\ Len(dispatched) = 2
    /\ ra_outcomes = <<"failed", "failed">>
    /\ ra_return_code = 1

\* C2: the command of the second attempt is the command of the first without
\* its "-i" tokens and the tokens after them; the "-T2" and "-subjid" pairs
\* and the tokens from the configuration are all still there, in order.
C2_RetryDropsInputPairs ==
    Len(dispatched) = 2 =>
        LET first == dispatched[1]
            second == dispatched[2]
            fromcfg == Flatten(segs)
        IN  /\ second = WithoutInputPairs(first)
            /\ \A i \in 1..(Len(first) - 1) :
                  first[i] \in {"-T2", "-subjid"} =>
                      \E j \in 1..(Len(second) - 1) :
                          second[j] = first[i] /\ second[j + 1] = first[i + 1]
            /\ Len(second) >= Len(fromcfg)
            /\ SubSeq(second, Len(second) - Len(fromcfg) + 1, Len(second)) = fromcfg

\* C2's case: a retry whose first command had input pairs and a T2 pair.
C2_Witness ==
    /\ Len(dispatched) = 2
    /\ "-i" \in Range(dispatched[1])
    /\ "-T2" \in Range(dispatched[2])
    /\ Len(dispatched[2]) < Len(dispatched[1])

\* C3: remove_i_args drops every "-i" and the token after it and nothing
\* else: no "-i" is left, the other tokens are kept once each in their order,
\* and no token is added.
C3_RemovesExactlyInputPairs ==
    fn_pc = "ret" =>
        /\ fn_out = WithoutInputPairs(fn_in)
        /\ "-i" \notin Range(fn_out)
        /\ Range(fn_out) \subseteq Range(fn_in)
        /\ Len(fn_out) <= Len(fn_in)

\* C3's case: two consecutive "-i" tokens and a trailing one.
C3_Witness ==
    /\ fn_pc = "ret"
    /\ fn_in = <<"-i", "-i", "p", "-all">>
    /\ fn_out = <<"-all">>

\* C4: in a dry run no real process is ever started, and
\* execute_recon_all_command makes one attempt and returns code 0, no error
\* and a warning that contains "dry-run".
C4_DryRunNeverRuns ==
    dry_run =>
        /\ dispatched = <<>>
        /\ ReconReturned =>
              /\ num_tries = 1
              /\ ra_outcomes = <<"skipped">>
              /\ ra_return_code = 0
              /\ ra_errors = <<>>
              /\ \E i \in 1..Len(ra_warnings) : Contains(ra_warnings[i], "dry-run")
        /\ (ReconReturned /\ pc # "recon_ret") =>
              \E i \in 1..Len(warnings) : Contains(warnings[i], "dry-run")

\* C4's case: a dry run has gone through execute_recon_all_command.
C4_Witness == dry_run /\ pc = "gate" /\ ra_outcomes = <<"skipped">>

\* The positional section of the command main got: what lies between
\* "time", "recon-all" and the tokens from the configuration.
Positional == SubSeq(main_command, 3, Len(main_command) - Len(Flatten(segs)))

\* C5: whenever input/anatomical holds a freesurfer-recon-all*.zip archive,
\* the positional section of the command is "-subjid" and the sanitized
\* top-level directory name of the archive, and the command has no "-i".
C5_ArchiveAlwaysResumes ==
    (main_command # <<>> /\ Len(FindPrevious(fs)) > 0) =>
        /\ fs.zipnames # <<>>
        /\ Positional = <<"-subjid", make_file_name_safe(Split(fs.zipnames[1], "/")[1])>>
        /\ "-i" \notin Range(main_command)

\* A token that is a path under the input directory.
IsInputPath(tok) == StartsWith(tok, INPUT_DIR \o "/")

\* One to five "-i" pairs, at most one "-T2" pair, then "-subjid" and id.
FreshShape(pos, id) ==
    \E k \in 1..5, t \in 0..1 :
        /\ Len(pos) = 2 * (k + t) + 2
        /\ \A j \in 0..(k - 1) : pos[2 * j + 1] = "-i" /\ IsInputPath(pos[2 * j + 2])
        /\ t = 1 => (pos[2 * k + 1] = "-T2" /\ IsInputPath(pos[2 * k + 2]))
        /\ pos[Len(pos) - 1] = "-subjid"
        /\ pos[Len(pos)] = id

\* C6: a command generate_command returns is "time", "recon-all", then the
\* positional section ("-subjid" id alone when resuming, else one to five
\* "-i" pairs, at most one "-T2" pair and "-subjid" id), then the tokens of
\* the configuration items in the order of the items.
C6_CommandShape ==
    main_command # <<>> =>
        LET n == Len(main_command) - Len(Flatten(segs))
        IN  /\ n >= 4
            /\ main_command[1] = "time"
            /\ main_command[2] = "recon-all"
            /\ IF new_subject_id # ""
               THEN Positional = <<"-subjid", new_subject_id>>
               ELSE FreshShape(Positional, subject_id)
            /\ Len(segs) = Len(command_config)
            /\ SubSeq(main_command, n + 1, Len(main_command))
                  = Flatten([i \in 1..Len(command_config) |->
                               KeyTokens(command_config[i][1], command_config[i][2])])

\* C6's case: a fresh run with five "-i" pairs and a "-T2" pair.
C6_Witness ==
    /\ pc = "built"
    /\ Len(SelectSeq(main_command, LAMBDA tok : tok = "-i")) = 5
    /\ "-T2" \in Range(main_command)
    /\ Len(Flatten(segs)) > 0

\* str(n) for the integers a job can hold.
Decimal(n) == <<"0", "1", "2", "3", "4", "5", "6", "7", "8", "9", "10", "11">>[n + 1]

\* What the claim has an item other than reconall_options contribute.
ClaimedTokens(key, val) ==
    CASE val.t = "bool" /\ val.b -> <<"-" \o key>>
      [] val.t = "bool" /\ ~val.b -> <<>>
      [] val.t = "int" -> <<"-" \o key, Decimal(val.n)>>
      [] val.t = "str" -> <<"-" \o key, val.s>>

\* C7: an item of the configuration other than reconall_options appends the
\* one token "-<key>" when its value is true, nothing when it is false, and
\* the two adjacent tokens "-<key>", str(value) when it is not a boolean.
C7_TokensPerKey ==
    \A i \in 1..Len(segs) :
        LET key == command_config[i][1]
            val == command_config[i][2]
            after == Len(Flatten(SubSeq(segs, i + 1, Len(segs))))
            last == Len(command) - after
        IN  key # "reconall_options" =>
                /\ segs[i] = ClaimedTokens(key, val)
                /\ SubSeq(command, last - Len(segs[i]) + 1, last) = ClaimedTokens(key, val)

\* C7's case: a command built from a true, a false and an integer item.
C7_Witness ==
    /\ pc = "built"
    /\ \E i, j, k \in 1..Len(segs) :
          /\ command_config[i][2] = VBool(TRUE) /\ segs[i] = <<"-3T">>
          /\ command_config[j][2] = VBool(FALSE) /\ segs[j] = <<>>
          /\ command_config[k][2].t = "int" /\ Len(segs[k]) = 2

\* C8: no token appended for reconall_options is empty or holds whitespace.
C8_OptionTokensClean ==
    \A i \in 1..Len(segs) :
        command_config[i][1] = "reconall_options" =>
            \A j \in 1..Len(segs[i]) :
                /\ segs[i][j] # ""
                /\ \A w \in Whitespace : ~Contains(segs[i][j], w)

\* A path relative to the input directory with a hidden component.
Hidden(rel) == \E c \in Range(Split(rel, "/")) : StartsWith(c, ".")

\* No archive of a previous run, no NIfTI file under input/anatomical and no
\* regular file under input/ that is not hidden.
NoUsableInput ==
    /\ \A r \in Range(fs.anat) :
          /\ ~(StartsWith(Basename(r), "freesurfer-recon-all") /\ EndsWith(r, ".zip"))
          /\ ~Contains(Basename(r), ".nii")
          /\ Hidden(r)
    /\ \A r \in Range(fs.other) : Hidden(r)
    /\ \A d \in fs.dirs : \A r \in Range(fs.aux[d]) : Hidden(r)

\* An archive of a previous run was unpacked and there is no directory of
\* its sanitized subject id under the subjects directory.
NoSubjectDir ==
    /\ \E r \in Range(fs.anat) :
          StartsWith(Basename(r), "freesurfer-recon-all") /\ EndsWith(r, ".zip")
    /\ fs.zipnames # <<>>
    /\ LET top == Split(fs.zipnames[1], "/")[1]
           id == make_file_name_safe(top)
       IN  /\ top # ""
           /\ id # ""
           /\ id \notin fs.subjects
           /\ \A n \in Range(fs.zipnames) : Split(n, "/")[1] # id

\* C9: with no usable input, or with a previous run unpacked whose subject
\* directory does not exist, the process exits with code 1 where it finds
\* that out: no command is built and no recon-all is dispatched.
C9_FatalInputExit ==
    (NoUsableInput \/ NoSubjectDir) =>
        /\ main_command = <<>>
        /\ dispatched = <<>>
        /\ num_tries = 0 /\ pp_tries = 0 /\ ~zipped
        /\ pc \in {"main", "generate", "input", "exited"}
        /\ NoSubjectDir => pc # "input"
        /\ pc = "exited" => exit_code = 1
        /\ pc # "exited" => exit_code = -1

\* C9's case: only hidden files were found and the process has exited.
C9_Witness ==
    /\ pc = "exited"
    /\ exit_code = 1
    /\ NoUsableInput
    /\ fs.anat # <<>>

\* C10: post-processing starts only once execute_recon_all_command is over,
\* and only if it returned 0 or was skipped by gear-postprocessing-only;
\* never after two failed attempts.
C10_PostOnlyAfterSuccess ==
    pp_tries > 0 =>
        /\ pc \in {"post", "post_step", "post_ret", "zip", "cleanup", "report", "exit", "exited"}
        /\ \/ /\ ra_outcomes = <<>>
              /\ Truthy(Get(config, "gear-postprocessing-only"))
           \/ /\ ra_outcomes # <<>>
              /\ ra_outcomes[Len(ra_outcomes)] # "failed"
              /\ ra_return_code = 0
        /\ ra_outcomes # <<"failed", "failed">>

\* C10's case: post-processing runs after the second attempt succeeded.
C10_Witness ==
    /\ pp_tries > 0
    /\ ra_outcomes = <<"failed", "ok">>

\* The steps of the catalogue that are switched on, in catalogue order.
Enabled ==
    SelectSeq([i \in 1..Len(PostKeys) |-> i],
              LAMBDA i : Truthy(Get(config, PostKeys[i])))

\* The steps called in turn t of execute_postprocesing_command.
Att(t) == SelectSeq(pp_ran, LAMBDA r : r.try = t)

\* Turn t ended with a step that raised.
Raised(t) == Att(t) # <<>> /\ Att(t)[Len(Att(t))].raised

\* execute_postprocesing_command was called and has left its loop.
PostReturned == pp_tries > 0 /\ pc \notin {"post", "post_step"}

TableKeys == UNION {Range(StepTables(i)) : i \in 1..Len(PostKeys)}

\* C12: a key of a table-producing step is in the metadata only if the
\* step's table file of that name exists; a step that is switched off
\* contributes no key; a step whose table is absent still completes, and the
\* return code of post-processing is 0 unless commands failed in both turns:
\* in a dry run, where no command can fail, it is 0 and no error is recorded.
C12_KeyOnlyIfTableExists ==
    /\ metadata \subseteq TableKeys \cup {"dry_run"}
    /\ \A k \in metadata \cap TableKeys : Tablefile(subject_id, k) \in tables
    /\ \A i \in 1..Len(PostKeys) :
          ~Truthy(Get(config, PostKeys[i])) => metadata \cap Range(StepTables(i)) = {}
    /\ \A j \in 1..Len(pp_ran) :
          ~pp_ran[j].raised => pp_ran[j].looked = Len(StepTables(pp_ran[j].step))
    /\ dry_run => (pp_errors = <<>> /\ \A j \in 1..Len(pp_ran) : ~pp_ran[j].raised)
    /\ (PostReturned /\ ~Raised(pp_tries)) => pp_return_code = 0

\* C12's case: post-processing returned 0 after a step found one of its
\* tables and another step completed without its table, while the table of
\* a step that is switched off lies in the output directory.
C12_Witness ==
    /\ pc = "post_ret"
    /\ pp_return_code = 0
    /\ "lh.hippoSfVolumes-T1.v21" \in metadata
    /\ "rh.amygNucVolumes-T1.v21" \notin metadata
    /\ "brainstemSsVolumes.v2" \notin metadata
    /\ \E j \in 1..Len(pp_ran) :
          PostKeys[pp_ran[j].step] = "gear-brainstem_structures" /\ ~pp_ran[j].raised
    /\ HasKey(config, "gear-thalamic_nuclei")
    /\ Tablefile(subject_id, "ThalamicNuclei.v12.T1.volumes") \in tables

\* C13: once recon-all has failed in both attempts, main skips
\* post-processing and goes on to its end: when the process has exited it
\* has gone through the zip and the cleanup blocks, has zipped and unlinked
\* the subject directory exactly if that directory exists, and the exit code
\* is 1; until then some step of main can be taken.
C13_FailedRunStillZips ==
    ra_outcomes = <<"failed", "failed">> =>
        /\ pp_tries = 0
        /\ exit_code \in {-1, 1}
        /\ pc # "exited" => ENABLED Next
        /\ pc = "exited" =>
              /\ exit_code = 1
              /\ {"zip", "cleanup"} \subseteq end_steps
              /\ zipped <=> SubjectDirExists(subjects, subject_id)
              /\ cleaned <=> SubjectDirExists(subjects, subject_id)

\* C13's case: both attempts failed, the subject directory was there and
\* was zipped, and the process has exited.
C13_Witness ==
    /\ ra_outcomes = <<"failed", "failed">>
    /\ pc = "exited"
    /\ zipped /\ cleaned
    /\ exit_code = 1

\* The process has ended, by sys.exit or by an exception nothing caught.
Ended == pc \in {"exited", "crashed"}

ClaimedCode(v) ==
    CASE v.out = "garbage" -> 11
      [] v.out \in {"scalar", "nokeys"} -> 12
      [] v.out = "report" /\ v.show # "ok" -> 12
      [] v.out = "report" /\ v.show = "ok" /\ v.n > 0 -> 10
      [] v.out = "report" /\ v.show = "ok" /\ v.n = 0 -> 0

\* C18: validate_bids returns 0 for a clean report, 10 for a report that
\* lists errors, 11 when the output cannot be parsed and 12 when it has an
\* unexpected shape, and no other value, whatever the validator's exit code.
C18_FourCodes ==
    fn_pc = "ret" =>
        /\ fn_out.kind = "return"
        /\ fn_out.err_code \in {0, 10, 11, 12}
        /\ fn_out.err_code = ClaimedCode(fn_in)

\* download_bids_for_runlevel was called and its last call returned.
Downloaded == fn_pc = "downloaded" /\ fn_out.last.kind = "return"

\* C15: download_bids_for_runlevel returns 24 for run_level no_destination,
\* having made no download call; 20 when the run level it works with is
\* none of the four levels; 21 when the download raised BIDSExportError; 25
\* when it raised ApiException; 26 when the download came back with a path
\* at which nothing exists. An exception of the download never leaves the
\* function.
C15_FailureCodes ==
    /\ (fn_pc = "raised" /\ fn_out.ncalls > 0) =>
          fn_out.outcome \notin {"BIDSExportError", "ApiException", "missing"}
    /\ Downloaded =>
          LET r == fn_out.last
          IN  /\ r.hierarchy.run_level = "no_destination" =>
                    (r.err_code = 24 /\ r.calls = <<>>)
              /\ (r.hierarchy.run_level # "no_destination" /\ r.run_level \notin LevelSet) =>
                    (r.err_code = 20 /\ r.calls = <<>>)
              /\ fn_out.outcome = "BIDSExportError" => r.err_code = 21
              /\ fn_out.outcome = "ApiException" => r.err_code = 25
              /\ fn_out.outcome = "missing" => r.err_code = 26

\* C15's case: a download at session level raised ApiException and the
\* function returned 25.
C15_Witness ==
    /\ Downloaded
    /\ fn_out.last.run_level = "session"
    /\ fn_out.last.calls = <<"download_project_bids">>
    /\ fn_out.outcome = "ApiException"
    /\ fn_out.last.err_code = 25

\* C16: at run level acquisition, when the hierarchy's acquisition label is
\* the placeholder get_run_level_and_hierarchy gives a destination without
\* acquisition parent, download_bids_for_runlevel returns 23 and makes no
\* download call.
C16_UnknownAcquisition ==
    (/\ Downloaded
     /\ fn_out.last.run_level = "acquisition"
     /\ fn_out.last.hierarchy.labels["acquisition"] = VStr("unknown acquisition")) =>
        /\ fn_out.last.err_code = 23
        /\ fn_out.last.calls = <<>>

\* C17 as stated: at every one of the four levels, a call that finds BIDS_DIR
\* in place makes no download call and goes on with BIDS_DIR as a path it
\* found.
C17_AlwaysValidPath ==
    (Downloaded /\ fn_out.before /\ fn_out.last.run_level \in LevelSet) =>
        /\ fn_out.last.calls = <<>>
        /\ fn_out.last.bids_path = BIDS_DIR
        /\ fn_out.last.found

\* C17, amended: a call of download_bids_for_runlevel at one of the four levels that
\* finds BIDS_DIR in place makes no download call and goes on with BIDS_DIR
\* as the path it found (the acquisition label not being the one line 246
\* takes for unknown); as the directory stays, this holds for every later
\* call, and no download is ever made once it exists.
C17_NoDownloadWhenPresent ==
    /\ (fn_pc \in {"downloaded", "raised"} /\ fn_out.ncalls > 0 /\ fn_out.before) =>
          fn_out.last.calls = <<>>
    /\ (Downloaded /\ fn_out.before) =>
          LET r == fn_out.last
          IN  /\ r.exists
              /\ (/\ r.run_level \in LevelSet
                  /\ ~(/\ r.run_level = "acquisition"
                       /\ r.hierarchy.labels["acquisition"] = VStr(UnknownAcquisition))) =>
                    /\ r.bids_path = BIDS_DIR
                    /\ r.found
                    /\ r.validated = fn_in.gtk.validate
                    /\ r.err_code \notin {20, 21, 23, 24, 25, 26}

\* C17's case: BIDS_DIR was there from the start, and the second call at
\* project level has returned without any download having been made.
C17_Witness ==
    /\ Downloaded
    /\ fn_out.ncalls = 2
    /\ fn_out.before
    /\ fn_out.downloads = <<>>
    /\ fn_out.last.run_level = "project"
    /\ fn_out.last.found

\* C19: in every hierarchy get_run_level_and_hierarchy returns, run_label
\* is a string and none of the four labels is None.
C19_LabelsNeverNull ==
    (LevelTaken /\ fn_out.level.kind = "return") =>
        /\ fn_out.level.hierarchy.run_label.t = "str"
        /\ \A l \in LevelSet : fn_out.level.hierarchy.labels[l] # None

\* C20: get_run_level_and_hierarchy returns for a destination whose parent
\* is of one of the four types, run_level being that type and run_label the
\* label resolved for that level; for a destination without parent, with
\* run_level no_parent; and, when a lookup raises ApiException, with
\* run_level no_destination.
C20_RunLevelByParent ==
    LevelTaken =>
        LET d == fn_in.dest
            failed == d.fail = "destination" \/ d.fail \in d.has
            r == fn_out.level
        IN  /\ (~failed /\ d.parent \in LevelSet) =>
                  /\ r.kind = "return"
                  /\ r.hierarchy.run_level = d.parent
                  /\ r.hierarchy.run_label = r.hierarchy.labels[d.parent]
                  /\ r.hierarchy.run_label =
                        IF d.parent \in d.has THEN VStr(ContainerLabel(d.parent))
                        ELSE VStr("unknown " \o d.parent)
            /\ (~failed /\ d.parent = "") =>
                  /\ r.kind = "return"
                  /\ r.hierarchy.run_level = "no_parent"
            /\ failed =>
                  /\ r.kind = "return"
                  /\ r.hierarchy.run_level = "no_destination"

\* C20's case: the destination's parent is a session whose label was
\* resolved, and the hierarchy has come back.
C20_Witness ==
    /\ fn_pc = "hierarchy"
    /\ fn_in.dest.parent = "session"
    /\ fn_in.dest.fail = ""
    /\ "session" \in fn_in.dest.has
    /\ fn_out.level.hierarchy.run_level = "session"
    /\ fn_out.level.hierarchy.run_label = VStr("TheSessionLabel")

\* C21: the openmp entry set_core_count leaves is the detected count when
\* n_cpus is absent or 0, the detected count when n_cpus is greater, and
\* n_cpus itself when it lies between 1 and the detected count.
C21_CoreCount ==
    fn_pc = "ret" =>
        LET n_cpus == Get(fn_in.config, "n_cpus")
            detected == fn_in.os_cpu_count
            openmp == Get(fn_out, "openmp")
        IN  /\ (n_cpus = None \/ n_cpus = VInt(0)) => openmp = VInt(detected)
            /\ (n_cpus # None /\ n_cpus.n > detected) => openmp = VInt(detected)
            /\ (n_cpus # None /\ 1 <= n_cpus.n /\ n_cpus.n <= detected) => openmp = n_cpus

\* C21's case: more cores were asked for than there are, and the count was
\* clamped.
C21_Witness ==
    /\ fn_pc = "ret"
    /\ HasKey(fn_in.config, "n_cpus")
    /\ Get(fn_in.config, "n_cpus").n > fn_in.os_cpu_count
    /\ Get(fn_out, "openmp") = VInt(fn_in.os_cpu_count)

\* C27: the command main got from generate_command holds no "-n_cpus"
\* token, and holds the thread count as "-openmp" followed by the number.
C27_NoNCpusToken ==
    main_command # <<>> =>
        /\ "-n_cpus" \notin Range(main_command)
        /\ \E i \in 1..(Len(main_command) - 1) :
              /\ main_command[i] = "-openmp"
              /\ main_command[i + 1] = Format(Get(config, "openmp"))

\* C22: what make_file_name_safe returns holds characters of
\* [A-Za-z0-9_.-] only and does not start with ".".
C22_SafeName ==
    (fn_pc = "ret" /\ Len(fn_out) >= 1) =>
        /\ \A i \in 1..Len(fn_out[1]) : Ch(fn_out[1], i) \in SafeChars
        /\ ~StartsWith(fn_out[1], ".")

\* C23: make_file_name_safe applied to its own result returns that result.
C23_Idempotent ==
    (fn_pc = "ret" /\ Len(fn_out) = 2) => fn_out[2] = fn_out[1]

\* C24: in the positional section of a command generate_command returned,
\* every "-i" is followed by one path under the input directory and then by
\* a flag ("-i", "-T2" or "-subjid"); the path of an additional input holds
\* no space. A fresh run has the "-i" of the primary input first.
C24_InputPairs ==
    main_command # <<>> =>
        /\ \A i \in 1..Len(Positional) :
              Positional[i] = "-i" =>
                 /\ i + 2 <= Len(Positional)
                 /\ IsInputPath(Positional[i + 1])
                 /\ Positional[i + 1] \notin {"-i", "-T2", "-subjid"}
                 /\ Positional[i + 2] \in {"-i", "-T2", "-subjid"}
                 /\ i > 1 => ~Contains(Positional[i + 1], " ")
        /\ new_subject_id = "" => Positional[1] = "-i"

\* C24's case: a fresh run whose additional T1 had a space in its name.
C24_Witness ==
    /\ pc = "built"
    /\ new_subject_id = ""
    /\ Len(SelectSeq(main_command, LAMBDA tok : tok = "-i")) >= 2
    /\ \E d \in fs.dirs : \E i \in 1..Len(fs.aux[d]) : Contains(fs.aux[d][i], " ")

\* C25: the subject id after "-subjid" in the command main got is main's
\* subject_id, the one the subject directory, the post-processing tables and
\* the zip archive are named by.
C25_OneSubjectId ==
    main_command # <<>> => SubjidOf(main_command) = subject_id

\* C28: when main exits with status 0, its list of errors is empty and no
\* summary of errors was logged.
C28_ErrorsMeanFailure ==
    (pc = "exited" /\ exit_code = 0) =>
        /\ errors = <<>>
        /\ "errors" \notin reported

\* "Funding" arrived as a value that is not a list.
ScalarFunding ==
    /\ fn_in.exists
    /\ HasKey(fn_in.data, "Funding")
    /\ Get(fn_in.data, "Funding").t # "list"

\* C29 as stated: after fix_dataset_description returned the file exists
\* and "Funding" is a list; a value that was no list has become the list
\* of that one value, a missing file holds the default description, and a
\* file whose "Funding" was a list was not written.
C29_OneElementList ==
    (fn_pc = "ret" /\ fn_out.kind = "return") =>
        /\ fn_out.file.exists
        /\ Get(fn_out.file.data, "Funding").t = "list"
        /\ ScalarFunding =>
              Get(fn_out.file.data, "Funding").items = <<Get(fn_in.data, "Funding").s>>
        /\ ~fn_in.exists => fn_out.file.data = DATASET_DESCRIPTION
        /\ (fn_in.exists /\ ~ScalarFunding) => (~fn_out.written /\ fn_out.file = fn_in)

\* C29, amended: after fix_dataset_description returned the file exists and
\* "Funding" is a list; a string has become the list of its characters (the
\* empty list for the empty string), nothing else of the file having
\* changed, and the file was written; a missing file holds the default
\* description; a file whose "Funding" was a list was not written. A
\* "Funding" that is a number or null, or that is absent, makes the function
\* raise and leaves the file as it was.
C29_FundingListOfCharacters ==
    fn_pc = "ret" =>
        /\ fn_out.kind = "return" =>
              /\ fn_out.file.exists
              /\ Get(fn_out.file.data, "Funding").t = "list"
              /\ ScalarFunding =>
                    LET old == Get(fn_in.data, "Funding")
                        new == Get(fn_out.file.data, "Funding").items
                    IN  /\ old.t = "str"
                        /\ Len(new) = Len(old.s)
                        /\ \A i \in 1..Len(new) : new[i] = Ch(old.s, i)
                        /\ old.s = "" => new = <<>>
                        /\ fn_out.written
                        /\ DictDel(fn_out.file.data, "Funding") = DictDel(fn_in.data, "Funding")
              /\ ~fn_in.exists => (fn_out.file.data = DATASET_DESCRIPTION /\ fn_out.written)
              /\ (fn_in.exists /\ ~ScalarFunding) => (~fn_out.written /\ fn_out.file = fn_in)
        /\ fn_out.kind = "raise" =>
              /\ fn_in.exists
              /\ ~HasKey(fn_in.data, "Funding") \/ Get(fn_in.data, "Funding").t \in {"int", "none"}
              /\ fn_out.file = fn_in
              /\ ~fn_out.written
        /\ (fn_in.exists /\ HasKey(fn_in.data, "Funding")
              /\ Get(fn_in.data, "Funding").t \in {"str", "list"}) => fn_out.kind = "return"

\* C29's case: "Funding" arrived as a string of several characters and the
\* file was written back.
C29_Witness ==
    /\ fn_pc = "ret"
    /\ fn_out.kind = "return"
    /\ ScalarFunding
    /\ Len(Get(fn_in.data, "Funding").s) > 1
    /\ fn_out.written

\* C26: a call of download_bids_for_runlevel never ends on err_code not
\* having been assigned, a download that returned no path included; when it
\* returns, it returns an integer and has logged the message of success
\* exactly when that integer is 0.
C26_CodeAssigned ==
    fn_out.ncalls > 0 =>
        /\ fn_out.last.kind = "raise" => fn_out.last.exc # "UnboundLocalError"
        /\ fn_out.outcome = "none" => fn_out.last.kind = "return"
        /\ fn_out.last.kind = "return" =>
              /\ fn_out.last.err_code \in Int
              /\ fn_out.last.success <=> fn_out.last.err_code = 0

\* The two lines extra_tree_text can end with.
StatusLines ==
    {"Error in BIDS download or validation.  See log for details.",
     "Downloading BIDS data was successful!"}

\* C30 as stated: however a call of download_bids_for_runlevel ends, the
\* listing was written, with the hierarchy first and the status line last.
C30_TreeAlways ==
    fn_out.ncalls > 0 =>
        /\ fn_out.last.tree.written
        /\ Head(fn_out.last.tree.extra) = "hierarchy"
        /\ fn_out.last.tree.extra[Len(fn_out.last.tree.extra)] \in StatusLines

\* C30, amended: when download_bids_for_runlevel returns, whatever the code,
\* the listing was written exactly when the argument tree is true, and then
\* it is a listing of the path the function ended with, its text beginning
\* with the hierarchy and ending with the status line, the line of success
\* exactly for code 0. A call that raises writes no listing.
C30_TreeWhenAsked ==
    fn_out.ncalls > 0 =>
        LET r == fn_out.last
        IN  /\ r.kind = "raise" => ~r.tree.written
            /\ r.kind = "return" =>
                  /\ r.tree.written <=> fn_in.tree
                  /\ r.tree.written =>
                        /\ r.tree.directory = r.bids_path
                        /\ Head(r.tree.extra) = "hierarchy"
                        /\ r.tree.extra[Len(r.tree.extra)] \in StatusLines
                        /\ r.tree.extra[Len(r.tree.extra)] = "Downloading BIDS data was successful!"
                              <=> r.err_code = 0
                        /\ \A i \in 1..(Len(r.tree.extra) - 1) : r.tree.extra[i] \notin StatusLines

\* C30's case: the destination does not exist, the function returned 24 and
\* the listing asked for was written.
C30_Witness ==
    /\ Downloaded
    /\ fn_in.tree
    /\ fn_out.last.err_code = 24
    /\ fn_out.last.tree.written
    /\ fn_out.last.tree.directory = "work/bids"

====
